---- MODULE Spec2Model ----
(***************************************************************************)
(* Model of oonn.prep.data.Dataset (dataset acquisition: download, extract, *)
(* refresh) as a state machine.  Python strings are sequences of one-       *)
(* character strings, the filesystem is a pair of path sets (directories    *)
(* and regular files), and every method is an operator that threads a       *)
(* frame record (filesystem, flags, call log, pending exception, return     *)
(* value) the way the interpreter threads control: once an exception is     *)
(* pending, no later statement runs.                                         *)
(***************************************************************************)
EXTENDS Integers, Sequences, FiniteSets, TLC

VARIABLES cfg, downloaded, extracted, fs, last, prev, proc, plast

vars == <<cfg, downloaded, extracted, fs, last, prev, proc, plast>>

(***************************************************************************)
(* Strings                                                                  *)
(***************************************************************************)
EMPTY == <<>>
SLASH == <<"/">>
DOT == <<".">>

Max(S) == CHOOSE x \in S : \A y \in S : y <= x

startswith(s, p) == Len(s) >= Len(p) /\ SubSeq(s, 1, Len(p)) = p

endswith(s, suf) == Len(s) >= Len(suf) /\ SubSeq(s, Len(s) - Len(suf) + 1, Len(s)) = suf

\* str.rfind: 0-based index of the last occurrence of the character, or -1
rfind(s, c) ==
    LET I == {i \in 1..Len(s) : s[i] = c}
    IN  IF I = {} THEN -1 ELSE Max(I) - 1

\* s[k:] for a 0-based k >= 0
slice_from(s, k) == SubSeq(s, k + 1, Len(s))

\* os.path.join(a, b) on POSIX, both arguments strings
os_path_join(a, b) ==
    IF startswith(b, SLASH) THEN b
    ELSE IF a = EMPTY \/ endswith(a, SLASH) THEN a \o b
    ELSE a \o SLASH \o b

\* Python values that are not strings are tagged; os.path.join rejects them
PyStr(s) == [t |-> "str", v |-> s]
PyList(l) == [t |-> "list", v |-> l]

\* os.path.join(a, x) for an arbitrary second argument: TypeError unless str
os_path_join_any(a, x) ==
    IF x.t = "str" THEN [err |-> "none", v |-> os_path_join(a, x.v)]
    ELSE [err |-> "TypeError", v |-> EMPTY]

(***************************************************************************)
(* Filesystem: dirs and files are sets of paths without trailing slash      *)
(***************************************************************************)
RECURSIVE Norm(_)
Norm(p) == IF p # EMPTY /\ p[Len(p)] = "/" THEN Norm(SubSeq(p, 1, Len(p) - 1)) ELSE p

Parent(p) ==
    LET n == Norm(p)
        k == rfind(n, "/")
    IN  IF k <= 0 THEN EMPTY ELSE SubSeq(n, 1, k)

\* the path itself and every ancestor directory of it
Ancestors(p) ==
    LET n == Norm(p)
    IN  {SubSeq(n, 1, i) : i \in {j \in 1..Len(n) : j = Len(n) \/ n[j + 1] = "/"}}

Under(root, p) == p = Norm(root) \/ startswith(p, Norm(root) \o SLASH)

os_path_exists(f, p) ==
    IF p = EMPTY THEN FALSE
    ELSE IF p[Len(p)] = "/" THEN Norm(p) \in f.dirs
    ELSE p \in f.dirs \cup f.files

(***************************************************************************)
(* Frames: the state a method call reads and writes                         *)
(***************************************************************************)
Event(op, st, folder, name) == [op |-> op, split |-> st.split, folder |-> folder, name |-> name]

Logged(st, op, folder, name) == [st EXCEPT !.log = Append(@, Event(op, st, folder, name))]

Raise(st, e) == [st EXCEPT !.err = e]

\* an adapter raises e: the failure is recorded apart from the pending exception
AdapterRaise(st, e) == [st EXCEPT !.err = e, !.adapter_err = e]

\* the removal of the tree raises e
RmtreeRaise(st, e) == [st EXCEPT !.err = e, !.rm_err = e]

Return(st, v) == IF st.err # "none" THEN st ELSE [st EXCEPT !.ret = v]

AdapterOps == {"fetch", "extractall"}

AdapterCalls(log) == {i \in 1..Len(log) : log[i].op \in AdapterOps}

\* the environment makes the failAt-th adapter invocation of a call fail
AdapterFails(st, failAt) == Cardinality(AdapterCalls(st.log)) + 1 = failAt

(***************************************************************************)
(* Collaborators: the os / shutil / urllib / zipfile / tarfile calls         *)
(***************************************************************************)
Then(st, F(_)) == IF st.err # "none" THEN st ELSE F(st)

\* os.makedirs(folder)
os_makedirs(st, folder) ==
    IF Norm(folder) = EMPTY THEN Raise(st, "FileNotFoundError")
    ELSE IF Ancestors(folder) \cap st.fs.files # {} THEN Raise(st, "FileExistsError")
    ELSE [st EXCEPT !.fs.dirs = @ \cup Ancestors(folder)]

\* open(path, 'w').close()
open_w(st, folder, name, path) ==
    LET s == Logged(st, "marker", folder, name)
    IN  IF path \in s.fs.dirs \/ endswith(path, SLASH) THEN Raise(s, "IsADirectoryError")
        ELSE IF Parent(path) # EMPTY /\ Parent(path) \notin s.fs.dirs THEN Raise(s, "FileNotFoundError")
        ELSE [s EXCEPT !.fs.files = @ \cup {path}]

\* Transport Adapter: urllib.request.urlretrieve(url, filename, reporthook)
urlretrieve(st, url, folder, name, path, env) ==
    LET s == Logged(st, "fetch", folder, name)
    IN  IF AdapterFails(st, env.failAt) THEN AdapterRaise(s, "TransportError")
        ELSE IF path \in s.fs.dirs \/ endswith(path, SLASH) THEN AdapterRaise(s, "IsADirectoryError")
        ELSE IF Parent(path) # EMPTY /\ Parent(path) \notin s.fs.dirs THEN AdapterRaise(s, "FileNotFoundError")
        ELSE [s EXCEPT !.fs.files = @ \cup {path}]

\* Archive Adapter: ZipFile(file).extractall(folder) / tarfile.open(name).extractall(folder)
\* (the members of the archive are not tracked, only the folder they create)
extractall(st, filepath, folder, env) ==
    LET s == Logged(st, "extractall", folder, slice_from(filepath, rfind(filepath, "/") + 1))
    IN  IF filepath \notin s.fs.files THEN AdapterRaise(s, "FileNotFoundError")
        ELSE IF AdapterFails(st, env.failAt) THEN AdapterRaise(s, "ArchiveError")
        ELSE IF env.members THEN os_makedirs(s, folder)
        ELSE s

\* shutil.rmtree(path); a denied removal may have emptied the tree already
shutil_rmtree(st, path, env) ==
    LET s == Logged(st, "rmtree", path, EMPTY)
        root == Norm(path)
    IN  IF root \in s.fs.files THEN RmtreeRaise(s, "NotADirectoryError")
        ELSE IF root \notin s.fs.dirs THEN RmtreeRaise(s, "FileNotFoundError")
        ELSE IF env.rm = "denied" THEN RmtreeRaise(s, "PermissionError")
        ELSE IF env.rm = "partial"
             THEN RmtreeRaise([s EXCEPT !.fs = [dirs |-> {d \in @.dirs : ~Under(root, d) \/ d = root},
                                          files |-> {f \in @.files : ~Under(root, f)}]],
                        "PermissionError")
        ELSE [s EXCEPT !.fs = [dirs |-> {d \in @.dirs : ~Under(root, d)},
                               files |-> {f \in @.files : ~Under(root, f)}]]

(***************************************************************************)
(* Dataset                                                                  *)
(***************************************************************************)
extract_marker == <<"_", "e", "x", "t", "r", "a", "c", "t", "e", "d">>

ZIP == <<".", "z", "i", "p">>
TAR_GZ == <<".", "t", "a", "r", ".", "g", "z">>
TGZ == <<".", "t", "g", "z">>

PyBool(b) == IF b THEN "True" ELSE "False"

\* the same check with the path joined from its string components
_check_if_downloaded_joined(args, st) ==
    LET n == Len(args)
        s == Logged(st, "check_downloaded", args[2], args[n])
        sub == IF n = 4 THEN args[3] ELSE EMPTY
    IN  Return(s, PyBool(os_path_exists(s.fs, os_path_join(os_path_join(args[2], sub), args[n]))))

\* Dataset._check_if_downloaded(self, source_url, download_folder, subfolder, filename),
\* called with the positional arguments args
_check_if_downloaded(args, st) ==
    LET s == Logged(st, "check_downloaded", args[2], args[Len(args)])
    IN  IF Len(args) # 4 THEN Raise(s, "TypeError")
        ELSE LET j == os_path_join_any(args[2], PyList(<<args[3], args[4]>>))
             IN  IF j.err # "none" THEN Raise(s, j.err)
                 ELSE Return(s, PyBool(os_path_exists(s.fs, j.v)))

\* Dataset.check_if_extracted(self, source_url, download_folder, filename)
check_if_extracted(source_url, download_folder, filename, st) ==
    LET s == Logged(st, "check_extracted", download_folder, filename)
    IN  Return(s, PyBool(os_path_exists(s.fs, os_path_join(download_folder, DOT \o filename \o extract_marker))))

\* self._check_if_extracted: the class defines no attribute of that name
_check_if_extracted(source_url, download_folder, filename, st) ==
    Raise(Logged(st, "check_extracted", download_folder, filename), "AttributeError")

\* Dataset._download(self, source_url, download_folder, filename, verbose)
_download(source_url, download_folder, filename, verbose, st, env) ==
    LET dwnld_path == os_path_join(download_folder, filename)
        s1 == IF ~os_path_exists(st.fs, download_folder) THEN os_makedirs(st, download_folder) ELSE st
        url_req == IF filename # EMPTY THEN os_path_join(source_url, filename) ELSE source_url
    IN  Then(s1, LAMBDA s :
            Return(IF verbose THEN urlretrieve(s, url_req, download_folder, filename, dwnld_path, env)
                   ELSE s, "None"))

\* a variant that records the marker before unpacking
_extract_marker_first(extract_filepath, extract_folder, verbose, st, env) ==
    LET name == slice_from(extract_filepath, rfind(extract_filepath, "/") + 1)
        marker_filename == os_path_join(extract_folder, DOT \o name \o extract_marker)
        s1 == open_w(st, extract_folder, name, marker_filename)
    IN  Then(s1, LAMBDA s :
            Return(IF endswith(extract_filepath, ZIP) \/ endswith(extract_filepath, TAR_GZ)
                      \/ endswith(extract_filepath, TGZ)
                   THEN extractall(s, extract_filepath, extract_folder, env) ELSE s, "None"))

\* Dataset._extract(self, extract_filepath, extract_folder, verbose): the function
\* defined in the class body
_extract(extract_filepath, extract_folder, verbose, st, env) ==
    LET s1 == IF endswith(extract_filepath, ZIP)
              THEN extractall(st, extract_filepath, extract_folder, env)
              ELSE IF endswith(extract_filepath, TAR_GZ) \/ endswith(extract_filepath, TGZ)
              THEN extractall(st, extract_filepath, extract_folder, env)
              ELSE st
        name == slice_from(extract_filepath, rfind(extract_filepath, "/") + 1)
        marker_filename == os_path_join(extract_folder, DOT \o name \o extract_marker)
    IN  Then(s1, LAMBDA s : Return(open_w(s, extract_folder, name, marker_filename), "None"))

\* self._extract(...) on an instance: __init__ stores the bool argument `extract`
\* in self._extract, which hides the method; calling a bool raises TypeError
self_extract(extract_filepath, extract_folder, verbose, st, env) ==
    Raise(Logged(st, "call_extract", extract_folder, extract_filepath), "TypeError")

\* Dataset._download_and_extract(self, source_url, download_folder, filename, verbose)
_download_and_extract(source_url, download_folder, filename, verbose, st, env) ==
    LET c1 == _check_if_downloaded(<<source_url, download_folder, filename>>, st)
        s1 == Then(c1, LAMBDA s :
                  IF s.ret = "False"
                  THEN _download(source_url, download_folder, filename, verbose, s, env)
                  ELSE s)
        c2 == Then(s1, LAMBDA s : _check_if_extracted(source_url, download_folder, filename, s))
        s2 == Then(c2, LAMBDA s :
                  IF s.ret = "False"
                  THEN self_extract(os_path_join(download_folder, filename), download_folder, verbose, s, env)
                  ELSE s)
    IN  Then(s2, LAMBDA s : Return(s, PyBool(c1.ret = "False" \/ c2.ret = "False")))

\* Dataset._clean_downloaded_folders(self)
_clean_downloaded_folders(c, st, env) ==
    Then(shutil_rmtree(st, c.download_url, env), LAMBDA s : Return(s, "None"))

\* the body of the for loop of download_extract_if_needed, from split i on
RECURSIVE split_loop(_, _, _, _, _, _)
split_loop(c, i, download_folder, verbose, st, env) ==
    IF i > 3 \/ st.err # "none" THEN st
    ELSE LET file_name == c.fnames[i]
             label == c.labels[i]
             subfolder == c.subfolders[i]
             data_flag == c.data_flags[i]
             df == IF subfolder # EMPTY THEN os_path_join(c.download_url, subfolder)
                   ELSE download_folder
             s0 == [st EXCEPT !.split = i,
                              !.dest = Append(@, [split |-> i, folder |-> df])]
             s1 == IF data_flag
                   THEN Then(_check_if_downloaded(<<c.source_url, c.download_url, subfolder, file_name>>, s0),
                             LAMBDA s :
                               IF s.ret = "False"
                               THEN LET a == _download_and_extract(c.source_url, df, file_name, TRUE, s, env)
                                    IN  IF label # EMPTY
                                        THEN Then(a, LAMBDA t :
                                                 _download_and_extract(c.source_url, df, label, TRUE, t, env))
                                        ELSE a
                               ELSE s)
                   ELSE s0
             s2 == Then(s1, LAMBDA s :
                       _download_and_extract(df, c.source_url, file_name, verbose, s, env))
         IN  split_loop(c, i + 1, df, verbose, s2, env)

\* a variant that skips the test of the downloaded flag
download_extract_always(c, verbose, st, env) ==
    LET s1 == [split_loop(c, 1, EMPTY, verbose, st, env) EXCEPT !.split = 0]
    IN  Then(s1, LAMBDA s : Return([s EXCEPT !.downloaded = TRUE], "None"))

\* a variant that empties destination_root before it processes the splits
download_extract_cleaning(c, verbose, st, env) ==
    LET s0 == IF ~st.downloaded
              THEN [st EXCEPT !.fs = [dirs |-> {d \in @.dirs : ~Under(c.download_url, d)},
                                      files |-> {f \in @.files : ~Under(c.download_url, f)}]]
              ELSE st
        s1 == IF ~st.downloaded
              THEN [split_loop(c, 1, EMPTY, verbose, s0, env) EXCEPT !.split = 0]
              ELSE st
    IN  Then(s1, LAMBDA s : Return([s EXCEPT !.downloaded = TRUE], "None"))

\* Dataset.download_extract_if_needed(self, verbose)
download_extract_if_needed(c, verbose, st, env) ==
    LET s1 == IF ~st.downloaded
              THEN [split_loop(c, 1, EMPTY, verbose, st, env) EXCEPT !.split = 0]
              ELSE st
    IN  Then(s1, LAMBDA s : Return([s EXCEPT !.downloaded = TRUE], "None"))

\* a variant that clears the flag before the folders are cleaned
refresh_flag_first(c, verbose, st, env) ==
    LET s1 == _clean_downloaded_folders(c, [st EXCEPT !.downloaded = FALSE], env)
    IN  Then(s1, LAMBDA s :
            download_extract_if_needed(c, verbose,
                [s EXCEPT !.deleg = <<[downloaded |-> s.downloaded, extracted |-> s.extracted,
                                       fs |-> s.fs]>>], env))

\* Dataset.refresh(self, verbose)
refresh(c, verbose, st, env) ==
    LET s1 == _clean_downloaded_folders(c, st, env)
        s2 == Then(s1, LAMBDA s : [s EXCEPT !.downloaded = FALSE])
    IN  Then(s2, LAMBDA s :
            download_extract_if_needed(c, verbose,
                [s EXCEPT !.deleg = <<[downloaded |-> s.downloaded, extracted |-> s.extracted,
                                       fs |-> s.fs]>>], env))

(***************************************************************************)
(* oonn.utils: Counter, Task, Process                                       *)
(***************************************************************************)
ProcIds == {"P1", "P2"}
TaskIds == {"T1", "T2"}
Others == {"O"}
Objs == ProcIds \cup TaskIds \cup Others

\* the most successful add_task calls of a run, over all processes
MaxAdds == 3

\* isinstance(x, Task): Process is a subclass of Task
isinstance_Task(x) == x \in TaskIds \cup ProcIds

\* Counter.next with the increment after the read
Counter_next_post(count) == [count |-> count + 1, ret |-> count]

\* Counter.next(self): the new count and the value returned
Counter_next(count) == [count |-> count + 1, ret |-> count + 1]

\* Counter.current(self)
Counter_current(count) == [count |-> count, ret |-> count]

\* dict operations on a task list
dict_set(m, k, v) == [j \in DOMAIN m \cup {k} |-> IF j = k THEN v ELSE m[j]]

dict_del(m, k) == [j \in DOMAIN m \ {k} |-> m[j]]

\* Process.__init__ for every process, Task.__init__(0) for every task; the
\* fields order and issued record the history of add_task per process
ProcInit ==
    [tasks |-> [q \in ProcIds |-> <<>>],
     counter |-> [q \in ProcIds |-> 0],
     continue_with_errors |-> [q \in ProcIds |-> TRUE],
     task_id |-> [x \in TaskIds \cup ProcIds |-> 0],
     order |-> [q \in ProcIds |-> <<>>],
     issued |-> [q \in ProcIds |-> <<>>]]

ProcFrame(pr) == [proc |-> pr, ret |-> "None", err |-> "none", ran |-> <<>>, raised |-> <<>>]

NoProcCall == [op |-> "init", p |-> "P1", arg |-> "None", ret |-> "None", err |-> "none",
               ran |-> <<>>, raised |-> <<>>, pre |-> ProcInit]

RemoveKey(seq, k) == SelectSeq(seq, LAMBDA j : j # k)

\* Process.add_task(self, task)
Process_add_task(pr, p, task) ==
    IF isinstance_Task(task)
    THEN LET n == Counter_next(pr.counter[p])
         IN  [ProcFrame([pr EXCEPT !.counter[p] = n.count,
                                   !.task_id[task] = n.ret,
                                   !.tasks[p] = dict_set(@, n.ret, task),
                                   !.order[p] = Append(RemoveKey(@, n.ret), n.ret),
                                   !.issued[p] = Append(@, n.ret)])
                EXCEPT !.ret = n.ret]
    ELSE [ProcFrame(pr) EXCEPT !.ret = 0]

\* pop_task that returns the task and leaves the list as it is
Process_pop_task_keep(pr, p, task_id) ==
    IF task_id \in DOMAIN pr.tasks[p]
    THEN [ProcFrame(pr) EXCEPT !.ret = pr.tasks[p][task_id]]
    ELSE [ProcFrame(pr) EXCEPT !.ret = "object"]

\* Process.pop_task(self, task_id); "object" is the fresh object() placeholder
Process_pop_task(pr, p, task_id) ==
    IF task_id \in DOMAIN pr.tasks[p]
    THEN [ProcFrame([pr EXCEPT !.tasks[p] = dict_del(@, task_id),
                               !.order[p] = RemoveKey(@, task_id)])
            EXCEPT !.ret = pr.tasks[p][task_id]]
    ELSE [ProcFrame(pr) EXCEPT !.ret = "object"]

\* the for loop of Process.execute of process p from index i up to hi - 1;
\* F is the set of tasks whose execute raises, cwe the continue_with_errors
\* flags; a task that is a Process runs its own loop, which never raises
RECURSIVE execute_loop(_, _, _, _, _, _)
execute_loop(fr, cwe, p, i, hi, F) ==
    IF i >= hi THEN fr
    ELSE IF i \notin DOMAIN fr.proc.tasks[p] THEN execute_loop(fr, cwe, p, i + 1, hi, F)
    ELSE LET current_task == fr.proc.tasks[p][i]
             entry == [p |-> p, key |-> i, task |-> current_task]
             f1 == [fr EXCEPT !.ran = Append(@, entry)]
         IN  IF current_task \in ProcIds
             THEN LET c == Counter_current(f1.proc.counter[current_task])
                      f2 == execute_loop([f1 EXCEPT !.proc.counter[current_task] = c.count],
                                         cwe, current_task, 0, c.ret + 1, F)
                  IN  execute_loop(f2, cwe, p, i + 1, hi, F)
             ELSE IF current_task \in F
             THEN LET f2 == [f1 EXCEPT !.raised = Append(@, entry), !.err = "Exception"]
                      handled == [f2 EXCEPT !.err = "none"]
                  IN  IF cwe[p] THEN execute_loop(handled, cwe, p, i + 1, hi, F)
                      ELSE handled
             ELSE execute_loop(f1, cwe, p, i + 1, hi, F)

\* execute with range(current()) in place of range(current() + 1)
Process_execute_short(pr, p, F) ==
    LET c == Counter_current(pr.counter[p])
    IN  execute_loop(ProcFrame([pr EXCEPT !.counter[p] = c.count]),
                     pr.continue_with_errors, p, 0, c.ret, F)

\* execute that returns at the first error whatever the flag says
Process_execute_stop(pr, p, F) ==
    LET c == Counter_current(pr.counter[p])
    IN  execute_loop(ProcFrame([pr EXCEPT !.counter[p] = c.count]),
                     [q \in ProcIds |-> FALSE], p, 0, c.ret + 1, F)

\* Process.execute(self)
Process_execute(pr, p, F) ==
    LET c == Counter_current(pr.counter[p])
    IN  execute_loop(ProcFrame([pr EXCEPT !.counter[p] = c.count]),
                     pr.continue_with_errors, p, 0, c.ret + 1, F)

\* the processes reachable from x through task lists, x included
RECURSIVE Contained(_, _, _)
Contained(pr, x, n) ==
    IF x \notin ProcIds \/ n = 0 THEN {x}
    ELSE {x} \cup UNION {Contained(pr, pr.tasks[x][k], n - 1) : k \in DOMAIN pr.tasks[x]}

(***************************************************************************)
(* Descriptors and initial filesystems                                      *)
(***************************************************************************)
TRAIN == <<"t", "r", "a", "i", "n">>
VALIDATE == <<"v", "a", "l", "i", "d", "a", "t", "e">>
TEST == <<"t", "e", "s", "t">>
DATA_DIR == <<"d", "a", "t", "a", "/">>
SOURCE == <<"u", "/">>
D_ZIP == <<"d", ".", "z", "i", "p">>
D_TGZ == <<"d", ".", "t", "g", "z">>
D_TAR_GZ == <<"d", ".", "t", "a", "r", ".", "g", "z">>
D_CSV == <<"d", ".", "c", "s", "v">>
L_CSV == <<"l", ".", "c", "s", "v">>
L_ZIP == <<"l", ".", "z", "i", "p">>
DZIP == <<"d", "z", "i", "p">>

\* file names, label names and subfolders of the three splits
Layout(f, l, s) == [fnames |-> f, labels |-> l, subfolders |-> s]

NO_NAMES == <<EMPTY, EMPTY, EMPTY>>

Layouts ==
    {Layout(NO_NAMES, NO_NAMES, <<TRAIN, VALIDATE, TEST>>),
     Layout(<<D_ZIP, D_CSV, D_TGZ>>, NO_NAMES, <<TRAIN, VALIDATE, TEST>>),
     Layout(<<D_ZIP, D_CSV, D_TGZ>>, <<L_CSV, L_CSV, L_ZIP>>, <<TRAIN, VALIDATE, TEST>>),
     Layout(<<D_TAR_GZ, D_ZIP, DZIP>>, NO_NAMES, NO_NAMES),
     Layout(<<D_CSV, D_ZIP, D_TGZ>>, <<L_ZIP, EMPTY, EMPTY>>, <<TRAIN, EMPTY, TEST>>),
     Layout(<<D_TGZ, D_CSV, D_ZIP>>, NO_NAMES, <<TRAIN, TRAIN, TEST>>)}

\* the arguments of Dataset.__init__ the model varies
Descriptors ==
    {[source_url |-> SOURCE, download_url |-> DATA_DIR,
      fnames |-> L.fnames, labels |-> L.labels, subfolders |-> L.subfolders,
      data_flags |-> p, refresh_everytime_used |-> r, already_downloaded |-> a] :
        L \in Layouts, p \in [1..3 -> BOOLEAN], r \in BOOLEAN, a \in BOOLEAN}

Splits == 1..3

\* destination_root / subfolder of split i
SplitFolder(c, i) == os_path_join(c.download_url, c.subfolders[i])

\* the artifact names of split i: data file and, when named, labels file
SplitArtifacts(c, i) == {c.fnames[i]} \cup (IF c.labels[i] # EMPTY THEN {c.labels[i]} ELSE {})

ArtifactPath(c, i, name) == os_path_join(SplitFolder(c, i), name)

MarkerPath(c, i, name) == os_path_join(SplitFolder(c, i), DOT \o name \o extract_marker)

\* a tree in which the splits of P are on disk, with their markers when m
TreeWith(c, P, m) ==
    [dirs |-> {Norm(c.download_url)} \cup UNION {Ancestors(SplitFolder(c, i)) : i \in P},
     files |-> {ArtifactPath(c, i, n) : <<i, n>> \in {x \in P \X UNION {SplitArtifacts(c, j) : j \in P} :
                                                   x[2] \in SplitArtifacts(c, x[1]) /\ x[2] # EMPTY}}
               \cup (IF m THEN {MarkerPath(c, x[1], x[2]) :
                                   x \in {y \in P \X UNION {SplitArtifacts(c, j) : j \in P} :
                                               y[2] \in SplitArtifacts(c, y[1])}}
                     ELSE {})]

NoTree == [dirs |-> {}, files |-> {}]

InitTrees(c) == {NoTree} \cup {TreeWith(c, P, m) : P \in SUBSET Splits, m \in BOOLEAN}

(***************************************************************************)
(* State machine                                                            *)
(***************************************************************************)
MaxFailAt == 2

\* what the environment does during one call: which adapter invocation fails,
\* whether an unpacked archive has members, how the removal of the tree ends
CallEnvs == [failAt : 0..MaxFailAt, members : BOOLEAN, rm : {"ok"}]

Envs == CallEnvs \cup [failAt : {0}, members : {FALSE}, rm : {"denied", "partial"}]

Frame == [fs |-> fs, downloaded |-> downloaded, extracted |-> extracted,
          log |-> <<>>, err |-> "none", ret |-> "None", split |-> 0, deleg |-> <<>>,
          dest |-> <<>>,
          adapter_err |-> "none", rm_err |-> "none"]

\* Dataset.__init__: the flags of a fresh descriptor
Init ==
    /\ cfg \in Descriptors
    /\ downloaded = cfg.already_downloaded
    /\ extracted = FALSE
    /\ fs \in InitTrees(cfg)
    /\ last = [op |-> "init", verbose |-> TRUE, folder |-> EMPTY, name |-> EMPTY,
               pre |-> [fs |-> fs, downloaded |-> downloaded, extracted |-> extracted],
               log |-> <<>>, err |-> "none", ret |-> "None", deleg |-> <<>>, dest |-> <<>>,
               adapter_err |-> "none", rm_err |-> "none"]
    /\ prev = [op |-> "none", err |-> "none"]
    /\ proc = ProcInit
    /\ plast = NoProcCall

\* the effect of a finished call r of method op on the object and the history
Commit(op, verbose, folder, name, r) ==
    /\ fs' = r.fs
    /\ downloaded' = r.downloaded
    /\ extracted' = r.extracted
    /\ last' = [op |-> op, verbose |-> verbose, folder |-> folder, name |-> name,
                pre |-> [fs |-> fs, downloaded |-> downloaded, extracted |-> extracted],
                log |-> r.log, err |-> r.err, ret |-> r.ret, deleg |-> r.deleg, dest |-> r.dest,
                adapter_err |-> r.adapter_err, rm_err |-> r.rm_err]
    /\ prev' = [op |-> last.op, err |-> last.err]
    /\ UNCHANGED <<cfg, proc, plast>>

EnsureAcquired ==
    \E verbose \in BOOLEAN, env \in CallEnvs :
        Commit("ensure_acquired", verbose, EMPTY, EMPTY,
               download_extract_if_needed(cfg, verbose, Frame, env))

Refresh ==
    \E verbose \in BOOLEAN, env \in Envs :
        Commit("refresh", verbose, EMPTY, EMPTY, refresh(cfg, verbose, Frame, env))

Next == EnsureAcquired \/ Refresh

Spec == Init /\ [][Next]_vars

(***************************************************************************)
(* The steps of the engine called one at a time, the way a subclass calls   *)
(* them, on the artifacts of the first splits of a descriptor               *)
(***************************************************************************)
StepSplits == {1}

\* a single step invokes an adapter at most once
StepEnvs == {e \in CallEnvs : e.failAt <= 1}

StepArgs(c) == {<<SplitFolder(c, i), n>> : <<i, n>> \in {x \in StepSplits \X UNION {SplitArtifacts(c, j) : j \in StepSplits} :
                                                       x[2] \in SplitArtifacts(c, x[1])}}

InitSteps ==
    /\ cfg \in {c \in Descriptors : /\ \A i \in Splits : c.data_flags[i]
                                  /\ ~c.refresh_everytime_used
                                  /\ ~c.already_downloaded}
    /\ downloaded = cfg.already_downloaded
    /\ extracted = FALSE
    /\ fs \in {NoTree, TreeWith(cfg, {}, FALSE)}
    /\ last = [op |-> "init", verbose |-> TRUE, folder |-> EMPTY, name |-> EMPTY,
               pre |-> [fs |-> fs, downloaded |-> downloaded, extracted |-> extracted],
               log |-> <<>>, err |-> "none", ret |-> "None", deleg |-> <<>>, dest |-> <<>>,
               adapter_err |-> "none", rm_err |-> "none"]
    /\ prev = [op |-> "none", err |-> "none"]
    /\ proc = ProcInit
    /\ plast = NoProcCall

\* self._download(source_url, folder, name, verbose)
StepDownload ==
    \E a \in StepArgs(cfg), verbose \in BOOLEAN, env \in StepEnvs :
        Commit("_download", verbose, a[1], a[2],
               _download(cfg.source_url, a[1], a[2], verbose, Frame, env))

\* self._extract(os.path.join(folder, name), folder, verbose)
StepExtract ==
    \E a \in StepArgs(cfg), verbose \in BOOLEAN, env \in StepEnvs :
        Commit("_extract", verbose, a[1], a[2],
               self_extract(os_path_join(a[1], a[2]), a[1], verbose, Frame, env))

\* super()._extract(os.path.join(folder, name), folder, verbose) in a subclass
StepSuperExtract ==
    \E a \in StepArgs(cfg), verbose \in BOOLEAN, env \in StepEnvs :
        Commit("super._extract", verbose, a[1], a[2],
               _extract(os_path_join(a[1], a[2]), a[1], verbose, Frame, env))

\* self._download_and_extract(source_url, folder, name, verbose)
StepDownloadAndExtract ==
    \E a \in StepArgs(cfg), verbose \in BOOLEAN, env \in StepEnvs :
        Commit("_download_and_extract", verbose, a[1], a[2],
               _download_and_extract(cfg.source_url, a[1], a[2], verbose, Frame, env))

\* self._check_if_downloaded(source_url, download_url, subfolder, name)
StepCheckIfDownloaded ==
    \E i \in StepSplits : \E n \in SplitArtifacts(cfg, i) :
        Commit("_check_if_downloaded", TRUE, SplitFolder(cfg, i), n,
               _check_if_downloaded(<<cfg.source_url, cfg.download_url, cfg.subfolders[i], n>>, Frame))

\* self.check_if_extracted(source_url, folder, name)
StepCheckIfExtracted ==
    \E a \in StepArgs(cfg) :
        Commit("check_if_extracted", TRUE, a[1], a[2],
               check_if_extracted(cfg.source_url, a[1], a[2], Frame))

NextSteps ==
    \/ StepDownload
    \/ StepExtract
    \/ StepSuperExtract
    \/ StepDownloadAndExtract
    \/ StepCheckIfDownloaded
    \/ StepCheckIfExtracted
    \/ EnsureAcquired
    \/ Refresh

SpecSteps == InitSteps /\ [][NextSteps]_vars

(***************************************************************************)
(* Processes and tasks                                                      *)
(***************************************************************************)
InitProc ==
    /\ cfg \in {c \in Descriptors : /\ \A i \in Splits : c.data_flags[i]
                                  /\ ~c.refresh_everytime_used /\ ~c.already_downloaded
                                  /\ c.fnames = NO_NAMES /\ c.labels = NO_NAMES
                                  /\ c.subfolders = <<TRAIN, VALIDATE, TEST>>}
    /\ downloaded = cfg.already_downloaded
    /\ extracted = FALSE
    /\ fs = NoTree
    /\ last = [op |-> "init", verbose |-> TRUE, folder |-> EMPTY, name |-> EMPTY,
               pre |-> [fs |-> fs, downloaded |-> downloaded, extracted |-> extracted],
               log |-> <<>>, err |-> "none", ret |-> "None", deleg |-> <<>>, dest |-> <<>>,
               adapter_err |-> "none", rm_err |-> "none"]
    /\ prev = [op |-> "none", err |-> "none"]
    /\ proc = ProcInit
    /\ plast = NoProcCall

ProcCommit(op, p, arg, r) ==
    /\ proc' = r.proc
    /\ plast' = [op |-> op, p |-> p, arg |-> arg, ret |-> r.ret, err |-> r.err,
                 ran |-> r.ran, raised |-> r.raised, pre |-> proc]
    /\ UNCHANGED <<cfg, downloaded, extracted, fs, last, prev>>

RECURSIVE SumOver(_, _)
SumOver(f, S) == IF S = {} THEN 0 ELSE LET x == CHOOSE y \in S : TRUE IN f[x] + SumOver(f, S \ {x})

\* the number of successful add_task calls so far, over all processes
TotalCount(pr) == SumOver(pr.counter, ProcIds)

\* p.add_task(x); a process is not nested into a process it contains
AddTask ==
    \E p \in ProcIds, x \in Objs :
        /\ isinstance_Task(x) => TotalCount(proc) < MaxAdds
        /\ p \notin Contained(proc, x, Cardinality(ProcIds))
        /\ ProcCommit("add_task", p, x, Process_add_task(proc, p, x))

\* p.pop_task(task_id)
PopTask ==
    \E p \in ProcIds, task_id \in 0..(MaxAdds + 1) :
        ProcCommit("pop_task", p, task_id, Process_pop_task(proc, p, task_id))

\* p.execute() while the execute of the tasks in F raises
Execute ==
    \E p \in ProcIds, F \in SUBSET TaskIds :
        ProcCommit("execute", p, F, Process_execute(proc, p, F))

\* p._continue_with_errors = b
SetContinueWithErrors ==
    \E p \in ProcIds, b \in BOOLEAN :
        ProcCommit("set_continue_with_errors", p, b,
                   ProcFrame([proc EXCEPT !.continue_with_errors[p] = b]))

NextProc == AddTask \/ PopTask \/ Execute \/ SetContinueWithErrors

SpecProc == InitProc /\ [][NextProc]_vars

(***************************************************************************)
(* Properties                                                               *)
(***************************************************************************)
Fetches(log) == {k \in 1..Len(log) : log[k].op = "fetch"}

Extractions(log) == {k \in 1..Len(log) : log[k].op = "extractall"}

MarkerWrites(log) == {k \in 1..Len(log) : log[k].op = "marker"}

EngineOps == {"ensure_acquired", "refresh"}

PresentSplits(c) == {i \in Splits : c.data_flags[i]}

IsArchive(name) == endswith(name, ZIP) \/ endswith(name, TAR_GZ) \/ endswith(name, TGZ)

OnDisk(f, c, i, name) == os_path_exists(f, ArtifactPath(c, i, name))

Marked(f, c, i, name) == MarkerPath(c, i, name) \in f.files

\* C1 (idempotence): when ensure_acquired is called twice in succession, the
\* second call invokes neither the Transport Adapter nor the Archive Adapter.
C1_Idempotence ==
    (last.op = "ensure_acquired" /\ prev.op = "ensure_acquired")
        => AdapterCalls(last.log) = {}

\* two calls in a row on a descriptor that was constructed as not downloaded
\* and has a present split
C1_Witness ==
    /\ last.op = "ensure_acquired" /\ prev.op = "ensure_acquired"
    /\ ~cfg.already_downloaded
    /\ PresentSplits(cfg) # {}

\* C2 (partial-failure resume), as claimed: when the previous call failed with
\* the train split acquired (on disk with its marker) and the data of the
\* validate split missing, the next call makes no adapter call for train and
\* invokes the Transport Adapter for the validate data.
C2_ResumeAsClaimed ==
    (/\ last.op = "ensure_acquired" /\ prev.op = "ensure_acquired" /\ prev.err # "none"
     /\ {1, 2} \subseteq PresentSplits(cfg)
     /\ cfg.fnames[1] # EMPTY /\ cfg.fnames[2] # EMPTY
     /\ \A n \in SplitArtifacts(cfg, 1) :
           OnDisk(last.pre.fs, cfg, 1, n) /\ Marked(last.pre.fs, cfg, 1, n)
     /\ ~OnDisk(last.pre.fs, cfg, 2, cfg.fnames[2]))
        => /\ \A k \in AdapterCalls(last.log) : last.log[k].split # 1
           /\ \E k \in Fetches(last.log) :
                 last.log[k].split = 2 /\ last.log[k].name = cfg.fnames[2]

\* C3 (presence gating): in an ensure_acquired or refresh call no adapter is
\* invoked while the loop is at a split whose present flag is false, and none
\* is invoked on the folder of such a split unless a present split shares it.
C3_PresenceGating ==
    last.op \in EngineOps
        => \A k \in AdapterCalls(last.log) :
              /\ last.log[k].split \in PresentSplits(cfg)
              /\ \A i \in Splits \ PresentSplits(cfg) :
                    last.log[k].folder = SplitFolder(cfg, i)
                        => \E j \in PresentSplits(cfg) : SplitFolder(cfg, j) = SplitFolder(cfg, i)

\* the loop of a call reached the iteration of a split that is not present
C3_Witness ==
    /\ last.op \in EngineOps
    /\ \E k \in 1..Len(last.log) :
          last.log[k].split \in Splits \ PresentSplits(cfg)

\* C4 (refresh forces re-acquisition), as claimed: after the tree is removed,
\* nothing is left under destination_root from before, both flags are false at
\* delegation, and the delegated call fetches the data of every present split.
C4_RefreshAsClaimed ==
    (last.op = "refresh" /\ last.rm_err = "none")
        => /\ Len(last.deleg) = 1
           /\ \A f \in last.pre.fs.files \cup last.pre.fs.dirs :
                 Under(cfg.download_url, f)
                     => f \notin last.deleg[1].fs.files \cup last.deleg[1].fs.dirs
           /\ ~last.deleg[1].downloaded /\ ~last.deleg[1].extracted
           /\ \A i \in PresentSplits(cfg) :
                 \E k \in Fetches(last.log) : last.log[k].split = i

\* C5 (fast path): with the downloaded flag set and refresh_everytime_used
\* unset, ensure_acquired returns normally without any marker query, adapter
\* call or marker write, and leaves the filesystem and both flags as they were.
C5_FastPath ==
    (last.op = "ensure_acquired" /\ last.pre.downloaded /\ ~cfg.refresh_everytime_used)
        => /\ last.log = <<>>
           /\ last.err = "none"
           /\ fs = last.pre.fs
           /\ downloaded = last.pre.downloaded
           /\ extracted = last.pre.extracted

\* the fast path taken on a descriptor seeded with already_downloaded over a
\* tree that holds files
C5_Witness ==
    /\ last.op = "ensure_acquired" /\ last.pre.downloaded
    /\ ~cfg.refresh_everytime_used /\ cfg.already_downloaded
    /\ fs.files # {}
    /\ PresentSplits(cfg) # {}

\* C6 (refresh_on_every_use), as claimed: a descriptor constructed with
\* refresh_everytime_used runs the per-split steps in every ensure_acquired
\* call, whatever the downloaded flag was.
C6_RefreshEveryUseAsClaimed ==
    (last.op = "ensure_acquired" /\ cfg.refresh_everytime_used)
        => last.log # <<>>

\* C7 (archive vs. pass-through), as claimed: the extraction step on a
\* downloaded artifact without marker invokes the Archive Adapter once for an
\* archive name and never otherwise, and unless the adapter fails the marker
\* .<filename>_extracted is in the folder afterwards.
C7_ExtractAsClaimed ==
    (/\ last.op = "_extract"
     /\ os_path_exists(last.pre.fs, os_path_join(last.folder, last.name))
     /\ ~os_path_exists(last.pre.fs, os_path_join(last.folder, DOT \o last.name \o extract_marker)))
        => /\ Cardinality(Extractions(last.log)) = (IF IsArchive(last.name) THEN 1 ELSE 0)
           /\ last.adapter_err = "none"
                 => os_path_join(last.folder, DOT \o last.name \o extract_marker) \in fs.files

\* the failures the environment can cause: adapters and filesystem
EnvErrors == {"TransportError", "ArchiveError", "FileNotFoundError", "IsADirectoryError",
              "FileExistsError", "NotADirectoryError", "PermissionError"}

\* C8 (completion flags), as claimed: an ensure_acquired call on a descriptor
\* not yet downloaded that meets no adapter or filesystem failure ends with
\* the downloaded flag and the extracted flag true.
C8_CompletionAsClaimed ==
    (last.op = "ensure_acquired" /\ ~last.pre.downloaded /\ last.err \notin EnvErrors)
        => downloaded /\ extracted

\* C9 (failure handling): when an adapter fails during a call, the call ends
\* with that error, the failed adapter call is the last thing the call did,
\* neither the artifact nor the marker of the failed step appears, every file
\* and marker from before is still there, and the downloaded flag is not set.
C9_FailureHandling ==
    last.adapter_err # "none"
        => LET e == last.log[Len(last.log)]
           IN  /\ last.err = last.adapter_err
               /\ e.op \in AdapterOps
               /\ Cardinality(AdapterCalls(last.log)) >= 1
               /\ os_path_join(e.folder, DOT \o e.name \o extract_marker) \notin fs.files \ last.pre.fs.files
               /\ os_path_join(e.folder, e.name) \notin fs.files \ last.pre.fs.files
               /\ last.pre.fs.files \subseteq fs.files
               /\ downloaded = last.pre.downloaded

\* the Archive Adapter failed on an archive while a marker was on disk
C9_Witness ==
    /\ last.adapter_err = "ArchiveError"
    /\ \E f \in last.pre.fs.files : endswith(f, extract_marker)

\* C10 (refresh failure): when the removal of destination_root fails, refresh
\* ends with that error, both flags are as before the call, and the engine is
\* not entered (no delegation, nothing logged after the removal attempt).
C10_RefreshFailure ==
    (last.op = "refresh" /\ last.rm_err # "none")
        => /\ last.err = last.rm_err
           /\ downloaded = last.pre.downloaded
           /\ extracted = last.pre.extracted
           /\ Len(last.deleg) = 0
           /\ Len(last.log) = 1 /\ last.log[1].op = "rmtree"

\* a denied removal on a descriptor whose downloaded flag was set
C10_Witness ==
    /\ last.op = "refresh" /\ last.rm_err = "PermissionError"
    /\ last.pre.downloaded
    /\ last.pre.fs.files # {}

\* the entries of process q among the executed entries, in execution order
RanOf(ran, q) == SelectSeq(ran, LAMBDA e : e.p = q)

Keys(entries) == [i \in 1..Len(entries) |-> entries[i].key]

\* the index in the add order of the first task whose execute raises, 0 if none
FirstRaising(pr, q, F) ==
    LET I == {i \in 1..Len(pr.order[q]) :
                 pr.tasks[q][pr.order[q][i]] \in TaskIds /\ pr.tasks[q][pr.order[q][i]] \in F}
    IN  IF I = {} THEN 0 ELSE CHOOSE i \in I : \A j \in I : i <= j

\* C11 (ordered execution), as claimed: execute runs exactly the entries of
\* the task list, each once, in ascending id order, which is the add order.
C11_OrderedAsClaimed ==
    plast.op = "execute"
        => LET mine == RanOf(plast.ran, plast.p)
           IN  /\ Keys(mine) = proc.order[plast.p]
               /\ \A i \in 1..Len(mine) : mine[i].task = proc.tasks[plast.p][mine[i].key]
               /\ \A i, j \in 1..Len(mine) : i < j => mine[i].key < mine[j].key

\* C11, amended: the same when continue_with_errors is true or no task raises;
\* when it is false and a task raises, execute runs the entries in that order
\* up to and including the first one that raises.
C11_Ordered ==
    plast.op = "execute"
        => LET mine == RanOf(plast.ran, plast.p)
               first == FirstRaising(proc, plast.p, plast.arg)
               expected == IF proc.continue_with_errors[plast.p] \/ first = 0
                           THEN proc.order[plast.p]
                           ELSE SubSeq(proc.order[plast.p], 1, first)
           IN  /\ Keys(mine) = expected
               /\ \A i \in 1..Len(mine) : mine[i].task = proc.tasks[plast.p][mine[i].key]
               /\ \A i, j \in 1..Len(mine) : i < j => mine[i].key < mine[j].key

\* execute ran two entries of a list from which an earlier entry was popped
C11_Witness ==
    /\ plast.op = "execute"
    /\ Len(RanOf(plast.ran, plast.p)) = 2
    /\ Len(proc.issued[plast.p]) = 3

\* C12 (continue-on-error): execute never ends with an exception; with
\* continue_with_errors true every entry of the list is executed although a
\* task raised; with it false no entry is executed after the first that raises.
C12_ContinueOnError ==
    plast.op = "execute"
        => LET mine == RanOf(plast.ran, plast.p)
           IN  /\ plast.err = "none"
               /\ proc.continue_with_errors[plast.p]
                     => \A k \in DOMAIN proc.tasks[plast.p] : \E i \in 1..Len(mine) : mine[i].key = k
               /\ ~proc.continue_with_errors[plast.p]
                     => \A i \in 1..Len(mine) :
                           (mine[i].task \in TaskIds /\ mine[i].task \in plast.arg) => i = Len(mine)

\* with the flag true a task raised and a task with a larger id ran after it
C12_Witness ==
    /\ plast.op = "execute"
    /\ proc.continue_with_errors[plast.p]
    /\ \E i, j \in 1..Len(plast.ran) :
          /\ i < j /\ plast.ran[i].p = plast.p /\ plast.ran[j].p = plast.p
          /\ plast.ran[i] \in {plast.raised[k] : k \in 1..Len(plast.raised)}

\* C18 (task ids): the n-th successful add_task of a process returns n and
\* stores the task under n; add_task of a non-Task returns 0 and changes
\* nothing; execute, which reads Counter.current, leaves every count as it was.
C18_TaskIds ==
    /\ \A q \in ProcIds : proc.issued[q] = [i \in 1..Len(proc.issued[q]) |-> i]
    /\ (plast.op = "add_task" /\ isinstance_Task(plast.arg))
          => /\ plast.ret = Len(plast.pre.issued[plast.p]) + 1
             /\ plast.ret \notin DOMAIN plast.pre.tasks[plast.p]
             /\ proc.tasks[plast.p][plast.ret] = plast.arg
    /\ (plast.op = "add_task" /\ ~isinstance_Task(plast.arg))
          => /\ plast.ret = 0
             /\ proc.tasks = plast.pre.tasks
             /\ proc.counter = plast.pre.counter
    /\ plast.op = "execute" => proc.counter = plast.pre.counter

\* an add_task that returned 2 after the task with id 1 had been popped
C18_Witness ==
    /\ plast.op = "add_task" /\ isinstance_Task(plast.arg)
    /\ plast.ret = 2
    /\ 1 \notin DOMAIN plast.pre.tasks[plast.p]

\* C19 (pop_task): popping a listed id removes that entry only and returns
\* its task; popping any other id raises nothing, changes nothing and returns
\* an object that is not a Task; execute runs no entry that is not listed.
C19_PopTask ==
    /\ plast.op = "pop_task"
          => LET m == plast.pre.tasks[plast.p]
             IN  /\ plast.err = "none"
                 /\ \A q \in ProcIds \ {plast.p} : proc.tasks[q] = plast.pre.tasks[q]
                 /\ IF plast.arg \in DOMAIN m
                    THEN /\ plast.ret = m[plast.arg]
                         /\ DOMAIN proc.tasks[plast.p] = DOMAIN m \ {plast.arg}
                         /\ \A k \in DOMAIN proc.tasks[plast.p] : proc.tasks[plast.p][k] = m[k]
                    ELSE /\ proc.tasks[plast.p] = m
                         /\ ~isinstance_Task(plast.ret)
    /\ plast.op = "execute"
          => \A i \in 1..Len(plast.ran) :
                plast.ran[i].key \in DOMAIN proc.tasks[plast.ran[i].p]

\* a listed task was popped from a list that keeps another entry
C19_Witness ==
    /\ plast.op = "pop_task"
    /\ plast.arg \in DOMAIN plast.pre.tasks[plast.p]
    /\ DOMAIN proc.tasks[plast.p] # {}

\* C13 (result value), as claimed: an ensure_acquired call that returns
\* normally returns False when it took the fast path and True when it
\* processed the splits.
C13_ResultAsClaimed ==
    (last.op = "ensure_acquired" /\ last.err = "none")
        => last.ret = (IF last.pre.downloaded THEN "False" ELSE "True")

\* C14 (labels independent of data), as claimed: an ensure_acquired call on a
\* descriptor not yet downloaded fetches, for every present split, the labels
\* file that is named and not on disk, whether or not the data file is there.
C14_LabelsAsClaimed ==
    (last.op = "ensure_acquired" /\ ~last.pre.downloaded)
        => \A i \in PresentSplits(cfg) :
              (cfg.labels[i] # EMPTY /\ ~OnDisk(last.pre.fs, cfg, i, cfg.labels[i]))
                  => \E k \in Fetches(last.log) :
                        last.log[k].split = i /\ last.log[k].name = cfg.labels[i]

\* all three splits are present and two of them have the same subfolder
Colliding(c) ==
    /\ \A i \in Splits : c.data_flags[i]
    /\ \E i, j \in Splits : i # j /\ c.subfolders[i] = c.subfolders[j]

\* C15 (constructor validation), as claimed: no descriptor with colliding
\* subfolders is constructed, so ensure_acquired is never called on one.
C15_ValidationAsClaimed == last.op = "ensure_acquired" => ~Colliding(cfg)

\* C16 (flag/marker consistency), as claimed: whenever the downloaded flag is
\* true, every named data and labels file of every present split is in that
\* split's destination folder.
C16_ConsistencyAsClaimed ==
    downloaded
        => \A i \in PresentSplits(cfg) :
              \A n \in SplitArtifacts(cfg, i) : n # EMPTY => OnDisk(fs, cfg, i, n)

\* C17 (marker queries before the folder exists), as claimed: a downloaded or
\* extracted query for a folder that does not exist returns False, raises
\* nothing and changes nothing.
C17_QueriesAsClaimed ==
    (/\ last.op \in {"_check_if_downloaded", "check_if_extracted"}
     /\ ~os_path_exists(last.pre.fs, last.folder))
        => /\ last.err = "none"
           /\ last.ret = "False"
           /\ fs = last.pre.fs
           /\ downloaded = last.pre.downloaded
           /\ extracted = last.pre.extracted

\* C20 (per-split destination folder), as claimed: the folder ensure_acquired
\* computes for a present split, to which its fetches and extractions go, is
\* destination_root joined with that split's own subfolder.
C20_FolderAsClaimed ==
    last.op = "ensure_acquired"
        => \A k \in 1..Len(last.dest) :
              cfg.data_flags[last.dest[k].split]
                  => last.dest[k].folder = SplitFolder(cfg, last.dest[k].split)

\* C21 (step order per artifact), as claimed: for verbose true and verbose
\* false, the state in which the extraction step follows the download step,
\* the one a download step that returned normally leaves, has the artifact's
\* file in the destination folder; and the extraction step writes the marker
\* only after the Archive Adapter has finished without error.
C21_StepOrderAsClaimed ==
    /\ (last.op = "_download" /\ last.err = "none")
          => os_path_exists(fs, os_path_join(last.folder, last.name))
    /\ last.op = "super._extract"
          => \A k \in MarkerWrites(last.log) :
                /\ last.adapter_err = "none"
                /\ \A j \in Extractions(last.log) : j < k
                /\ IsArchive(last.name) => Extractions(last.log) # {}

\* C22 (marker durability): a step that makes a file or folder disappear is a
\* refresh that called the removal of destination_root, and what disappears
\* lies under destination_root; so no ensure_acquired call, successful or
\* failed, and no step of the engine removes a marker or an artifact file.
C22_MarkerDurability ==
    [][(fs.files \cup fs.dirs) \ (fs'.files \cup fs'.dirs) # {}
          => /\ last'.op = "refresh"
             /\ \E k \in 1..Len(last'.log) : last'.log[k].op = "rmtree"
             /\ \A f \in (fs.files \cup fs.dirs) \ (fs'.files \cup fs'.dirs) :
                   Under(cfg.download_url, f)]_vars

\* an ensure_acquired call failed and the marker that was on disk is still there
C22_Witness ==
    /\ last.op = "ensure_acquired" /\ last.err # "none"
    /\ \E f \in last.pre.fs.files : endswith(f, extract_marker) /\ f \in fs.files

\* what a finished call did and left, without its progress output
Effects(r) ==
    [ops |-> SelectSeq(r.log, LAMBDA e : e.op \in AdapterOps \cup {"marker"}),
     downloaded |-> r.downloaded, extracted |-> r.extracted, fs |-> r.fs, err |-> r.err]

\* C23 (verbose affects only progress output), as claimed: from any state, a
\* run with verbose true and a run with verbose false make the same fetches,
\* extractions and marker writes and end with the same flags, for
\* ensure_acquired and for the download step it relies on; a download step run
\* with verbose false on an artifact that is not on disk fetches it.
C23_VerboseAsClaimed ==
    /\ \A env \in CallEnvs :
          Effects(download_extract_if_needed(cfg, TRUE, Frame, env))
              = Effects(download_extract_if_needed(cfg, FALSE, Frame, env))
    /\ \A a \in StepArgs(cfg), env \in StepEnvs :
          Effects(_download(cfg.source_url, a[1], a[2], TRUE, Frame, env))
              = Effects(_download(cfg.source_url, a[1], a[2], FALSE, Frame, env))
    /\ (/\ last.op = "_download" /\ ~last.verbose /\ last.err = "none"
        /\ ~os_path_exists(last.pre.fs, os_path_join(last.folder, last.name)))
          => Fetches(last.log) # {}

\* C24 (task-list key invariant), as claimed: every entry of every task list
\* is stored under the id its task reports, and every key lies between 1 and
\* the counter value of its process.
C24_KeyInvariantAsClaimed ==
    \A p \in ProcIds : \A k \in DOMAIN proc.tasks[p] :
        /\ proc.task_id[proc.tasks[p][k]] = k
        /\ 1 <= k /\ k <= proc.counter[p]

====
